---- MODULE Spec2Model ----
(***************************************************************************)
(* Model of the Bixi GBFS MCP server: the BixiGBFSClient feed cache        *)
(* (client.py) and the tools built on it (server.py).                      *)
(*                                                                         *)
(* Tool invocations are asyncio tasks on one event loop: a task runs       *)
(* without interleaving until it awaits the remote GET, and again from the *)
(* GET's completion to its next GET or to its return.                      *)
(***************************************************************************)
EXTENDS Integers, Sequences, FiniteSets, TLC

VARIABLES
    _cache,        \* BixiGBFSClient._cache: cache_key -> [data, timestamp]
    now,           \* asyncio.get_event_loop().time(), in seconds
    tasks,         \* the tool invocations (coroutines) and their local state
    trace,         \* history: the _fetch_feed events of the last step
    cache_before,  \* history: _cache as it was before the last step
    hits,          \* history: cache hits on each key since its entry was stored
    ticks,         \* number of clock advances so far (bounded)
    invocations,   \* number of tool invocations started so far (bounded)
    call,          \* a tool's post-processing input (the fetched lists, arguments)
    ret            \* what that post-processing returned or raised

vars == <<_cache, now, tasks, trace, cache_before, hits, ticks, invocations,
         call, ret>>

(***************************************************************************)
(* Bounds of the model.                                                    *)
(***************************************************************************)
MaxTicks == 2
MaxInvocations == 3

\* Freshness window of client.py line 22, in seconds.
CacheTTL == 60

None == [kind |-> "none"]

(***************************************************************************)
(* client.py                                                               *)
(***************************************************************************)
BASE_URL == "https://gbfs.velobixi.com/gbfs/2-2"

\* Caller-supplied strings. get_raw_gbfs_feed passes both through unchanged.
Languages == {"en", "en_station"}
FeedNames == {"station_status", "status"}
\* language: str = "en"
DefaultLanguage == "en"
\* Tools other than get_raw_gbfs_feed take no feed name.
NoFeed == ""
TaskIds == {"t1", "t2"}

\* Coroutines are interchangeable: a new one takes the first free slot.
TaskOrder(t) == IF t = "t1" THEN 1 ELSE 2

\* f"{language}_{feed_name}"
CacheKey(language, feed_name) == language \o "_" \o feed_name

\* f"{self.BASE_URL}/{language}/{feed_name}.json"
Url(language, feed_name) ==
    BASE_URL \o "/" \o language \o "/" \o feed_name \o ".json"

\* Mutant of IsFresh: the window is closed at 60 s (<= for <).
IsFreshInclusive(cache, cache_key, time) ==
    /\ cache_key \in DOMAIN cache
    /\ (time - cache[cache_key].timestamp) <= CacheTTL

\* if cache_key in self._cache: ... if (time() - timestamp) < 60
IsFresh(cache, cache_key, time) ==
    /\ cache_key \in DOMAIN cache
    /\ (time - cache[cache_key].timestamp) < CacheTTL

\* self._cache[cache_key] = (data, time())
StoreEntry(cache, cache_key, data, time) ==
    [k \in DOMAIN cache \cup {cache_key} |->
        IF k = cache_key THEN [data |-> data, timestamp |-> time] ELSE cache[k]]

\* What the remote source can answer to one GET of url at a given time: the
\* feed document of that url as last updated then, a transport failure, or
\* a status that raise_for_status() rejects.
Responses(url, time) ==
    {[kind |-> "ok", data |-> [url |-> url, last_updated |-> time]],
     [kind |-> "transport"], [kind |-> "http_status", code |-> 503]}

\* The exception _fetch_feed raises for a failed GET (lines 35-38).
FetchError(feed_name, response) ==
    IF response.kind = "transport"
    THEN [msg |-> "Failed to fetch", feed |-> feed_name]
    ELSE [msg |-> "GBFS API error", code |-> response.code]

(***************************************************************************)
(* server.py: the tools, as far as their feed fetches go.                  *)
(***************************************************************************)
TwoFeedTools == {"get_system_summary", "get_stations_with_issues"}

\* The feeds a tool fetches, in order.
ToolFeeds(tool, feed_name) ==
    IF tool = "get_raw_gbfs_feed" THEN <<feed_name>>
    ELSE <<"station_information", "station_status">>

\* The prefix of the tool's except clause.
ErrorPrefix(tool) ==
    CASE tool = "get_raw_gbfs_feed" -> "Error fetching raw GBFS feed"
      [] tool = "get_system_summary" -> "Error fetching system summary"
      [] tool = "get_stations_with_issues" -> "Error fetching stations with issues"

\* raise Exception(f"<prefix>: {str(e)}")
Wrapped(tool, cause) == [kind |-> "error", prefix |-> ErrorPrefix(tool), cause |-> cause]

\* The tool's return value, computed from every document it fetched.
Returned(tool, docs) == [kind |-> "ok", tool |-> tool, from |-> docs]

Idle == [pc |-> "idle"]

\* A tool that returned or raised in the last step has handed its result to
\* its caller; its coroutine is gone by the next step.
Delivered(ts) == [t \in TaskIds |-> IF ts[t].pc = "done" THEN Idle ELSE ts[t]]

NewTask(tool, language, feed_name) ==
    [pc |-> "run", tool |-> tool, language |-> language,
     feeds |-> ToolFeeds(tool, feed_name),
     calls |-> <<>>, result |-> None, raced |-> FALSE]

Docs(task) == [i \in 1..Len(task.calls) |-> task.calls[i].data]

\* The cache hit of lines 20-23: return data, no GET.
HitCall(cache, feed_name, cache_key) ==
    [feed |-> feed_name, key |-> cache_key, gets |-> 0, outcome |-> "hit",
     data |-> cache[cache_key].data]

\* Lines 26-28: the GET is issued and the coroutine suspends.
IssueGet(feed_name, cache_key) ==
    [feed |-> feed_name, key |-> cache_key, gets |-> 1, outcome |-> "pending",
     data |-> None]

\* A task runs from where it stands to its next GET or to its return:
\* fresh cache hits do not suspend it.
RECURSIVE Continue(_, _, _)
Continue(task, cache, time) ==
    IF Len(task.calls) = Len(task.feeds)
    THEN [task EXCEPT !.pc = "done", !.result = Returned(task.tool, Docs(task))]
    ELSE LET feed_name == task.feeds[Len(task.calls) + 1]
             cache_key == CacheKey(task.language, feed_name)
         IN  IF IsFresh(cache, cache_key, time)
             THEN Continue([task EXCEPT !.calls =
                              Append(@, HitCall(cache, feed_name, cache_key))],
                           cache, time)
             ELSE [task EXCEPT !.pc = "await",
                               !.calls = Append(@, IssueGet(feed_name, cache_key))]

\* The _fetch_feed events of a task's run: one per call it made since `from`.
Events(id, task, from, cache, time) ==
    [i \in 1..(Len(task.calls) - from) |->
        LET c == task.calls[from + i]
        IN  [task |-> id, language |-> task.language, feed |-> c.feed,
             key |-> c.key, call |-> from + i,
             kind |-> IF c.outcome = "hit" THEN "hit" ELSE "get",
             entry |-> IF c.key \in DOMAIN cache THEN cache[c.key] ELSE None,
             data |-> c.data, time |-> time]]

\* The event of a GET's completion: a store or a failure.
Completion(id, task, kind, cache, data, time) ==
    LET c == task.calls[Len(task.calls)]
    IN  [task |-> id, language |-> task.language, feed |-> c.feed,
         key |-> c.key, call |-> Len(task.calls), kind |-> kind,
         entry |-> IF c.key \in DOMAIN cache THEN cache[c.key] ELSE None,
         data |-> data, time |-> time]

\* History: the cache hits on each key since its entry was stored.
CountHits(h, events) ==
    [k \in DOMAIN h \cup {events[i].key : i \in DOMAIN events} |->
        IF \E i \in DOMAIN events : events[i].key = k /\ events[i].kind = "store"
        THEN Cardinality({i \in DOMAIN events :
                            events[i].key = k /\ events[i].kind = "hit"})
        ELSE (IF k \in DOMAIN h THEN h[k] ELSE 0)
             + Cardinality({i \in DOMAIN events :
                              events[i].key = k /\ events[i].kind = "hit"})]

\* A new BixiGBFSClient on a fresh event loop.
CacheAtStart ==
    /\ _cache = << >>
    /\ now = 0
    /\ tasks = [t \in TaskIds |-> Idle]
    /\ trace = << >>
    /\ cache_before = << >>
    /\ hits = << >>
    /\ ticks = 0
    /\ invocations = 0

cacheVars == <<_cache, now, tasks, trace, cache_before, hits, ticks, invocations>>

Init ==
    /\ CacheAtStart
    /\ call = None
    /\ ret = None

\* The clock advances; nothing else needs the event loop for that.
Tick(d) ==
    /\ ticks < MaxTicks
    /\ ticks' = ticks + 1
    /\ now' = now + d
    /\ tasks' = Delivered(tasks)
    /\ trace' = << >>
    /\ cache_before' = _cache
    /\ UNCHANGED <<_cache, hits, invocations, call, ret>>

\* A tool is called: it runs to its first GET, or to its return on hits.
Invoke(t, tool, language, feed_name) ==
    /\ tasks[t].pc \in {"idle", "done"}
    /\ \A u \in TaskIds : TaskOrder(u) < TaskOrder(t) => tasks[u].pc = "await"
    /\ invocations < MaxInvocations
    /\ invocations' = invocations + 1
    /\ LET task == Continue(NewTask(tool, language, feed_name), _cache, now)
           events == Events(t, task, 0, _cache, now)
       IN  /\ tasks' = [Delivered(tasks) EXCEPT ![t] = task]
           /\ trace' = events
           /\ hits' = CountHits(hits, events)
    /\ cache_before' = _cache
    /\ UNCHANGED <<_cache, now, ticks, call, ret>>

\* Mutant of GetSucceeds: a GET that completes after another task has made
\* the entry fresh keeps that entry and returns its document.
GetSucceedsFirstWins(t, response) ==
    LET task == tasks[t]
        n == Len(task.calls)
        c == task.calls[n]
        keep == IsFresh(_cache, c.key, now)
        data == IF keep THEN _cache[c.key].data ELSE response.data
        stored == IF keep THEN _cache ELSE StoreEntry(_cache, c.key, data, now)
        resumed == [task EXCEPT !.pc = "run",
                                !.calls[n].outcome = "ok",
                                !.calls[n].data = data]
        after == Continue(resumed, stored, now)
        events == <<Completion(t, task, "store", _cache, response.data, now)>>
                  \o Events(t, after, n, stored, now)
    IN  /\ _cache' = stored
        /\ tasks' = [u \in TaskIds |->
                        IF u = t THEN after
                        ELSE IF tasks[u].pc = "await"
                                /\ tasks[u].calls[Len(tasks[u].calls)].key = c.key
                             THEN [tasks[u] EXCEPT !.raced = TRUE]
                             ELSE Delivered(tasks)[u]]
        /\ trace' = events
        /\ hits' = CountHits(hits, events)

\* The awaited GET succeeds: lines 29-34, then the tool goes on.
GetSucceeds(t, response) ==
    LET task == tasks[t]
        n == Len(task.calls)
        c == task.calls[n]
        stored == StoreEntry(_cache, c.key, response.data, now)
        resumed == [task EXCEPT !.pc = "run",
                                !.calls[n].outcome = "ok",
                                !.calls[n].data = response.data]
        after == Continue(resumed, stored, now)
        events == <<Completion(t, task, "store", _cache, response.data, now)>>
                  \o Events(t, after, n, stored, now)
    IN  /\ _cache' = stored
        /\ tasks' = [u \in TaskIds |->
                        IF u = t THEN after
                        ELSE IF tasks[u].pc = "await"
                                /\ tasks[u].calls[Len(tasks[u].calls)].key = c.key
                             THEN [tasks[u] EXCEPT !.raced = TRUE]
                             ELSE Delivered(tasks)[u]]
        /\ trace' = events
        /\ hits' = CountHits(hits, events)

\* Mutant of GetFails: a failed GET falls back to the stale entry, if any.
GetFailsServesStale(t, response) ==
    LET task == tasks[t]
        n == Len(task.calls)
        c == task.calls[n]
        stale == c.key \in DOMAIN _cache
    IN  /\ _cache' = _cache
        /\ tasks' = [Delivered(tasks) EXCEPT ![t] =
                        [task EXCEPT !.pc = "done",
                                     !.calls[n].outcome = response.kind,
                                     !.calls[n].data =
                                        IF stale THEN _cache[c.key].data ELSE None,
                                     !.result =
                                        IF stale
                                        THEN Returned(task.tool,
                                               [Docs(task) EXCEPT ![n] = _cache[c.key].data])
                                        ELSE Wrapped(task.tool,
                                               FetchError(c.feed, response))]]
        /\ trace' = <<Completion(t, task, "fail", _cache, None, now)>>
        /\ hits' = hits

\* Mutant of GetFails: the tool goes on with the feeds fetched so far.
GetFailsReturnsPartial(t, response) ==
    LET task == tasks[t]
        n == Len(task.calls)
        c == task.calls[n]
    IN  /\ _cache' = _cache
        /\ tasks' = [Delivered(tasks) EXCEPT ![t] =
                        [task EXCEPT !.pc = "done",
                                     !.calls[n].outcome = response.kind,
                                     !.result =
                                        IF n > 1
                                        THEN Returned(task.tool, SubSeq(Docs(task), 1, n - 1))
                                        ELSE Wrapped(task.tool,
                                               FetchError(c.feed, response))]]
        /\ trace' = <<Completion(t, task, "fail", _cache, None, now)>>
        /\ hits' = hits

\* Mutant of GetFails: the GET is issued once more before giving up.
GetFailsRetries(t, response) ==
    LET task == tasks[t]
        n == Len(task.calls)
        c == task.calls[n]
    IN  /\ _cache' = _cache
        /\ tasks' = [Delivered(tasks) EXCEPT ![t] =
                        IF c.gets < 2
                        THEN [task EXCEPT !.calls[n].gets = @ + 1]
                        ELSE [task EXCEPT !.pc = "done",
                                          !.calls[n].outcome = response.kind,
                                          !.result = Wrapped(task.tool,
                                                        FetchError(c.feed, response))]]
        /\ trace' = <<Completion(t, task, "fail", _cache, None, now)>>
        /\ hits' = hits

\* The awaited GET fails: the exception leaves _fetch_feed and the tool.
GetFails(t, response) ==
    LET task == tasks[t]
        n == Len(task.calls)
        c == task.calls[n]
    IN  /\ _cache' = _cache
        /\ tasks' = [Delivered(tasks) EXCEPT ![t] =
                        [task EXCEPT !.pc = "done",
                                     !.calls[n].outcome = response.kind,
                                     !.result = Wrapped(task.tool,
                                                   FetchError(c.feed, response))]]
        /\ trace' = <<Completion(t, task, "fail", _cache, None, now)>>
        /\ hits' = hits

\* The remote source answers the GET a task awaits.
Respond(t) ==
    /\ tasks[t].pc = "await"
    /\ \E response \in Responses(Url(tasks[t].language,
                                     tasks[t].calls[Len(tasks[t].calls)].feed), now) :
          IF response.kind = "ok" THEN GetSucceeds(t, response)
                                  ELSE GetFails(t, response)
    /\ cache_before' = _cache
    /\ UNCHANGED <<now, ticks, invocations, call, ret>>

\* Concurrent get_raw_gbfs_feed calls with caller-supplied strings.
NextCache ==
    \/ \E d \in {1, CacheTTL - 1} : Tick(d)
    \/ \E t \in TaskIds, l \in Languages, f \in FeedNames :
          Invoke(t, "get_raw_gbfs_feed", l, f)
    \/ \E t \in TaskIds : Respond(t)

SpecCache == Init /\ [][NextCache]_vars

\* Concurrent calls of the tools that fetch two feeds.
NextTools ==
    \/ \E d \in {1, CacheTTL - 1} : Tick(d)
    \/ \E t \in TaskIds, tool \in TwoFeedTools :
          Invoke(t, tool, DefaultLanguage, NoFeed)
    \/ \E t \in TaskIds : Respond(t)

SpecTools == Init /\ [][NextTools]_vars

(***************************************************************************)
(* server.py: what the tools compute from the lists they fetched.          *)
(* Strings that are searched or compared are sequences of characters.      *)
(***************************************************************************)
MaxStations == 3
MaxLimit == 3
MaxCount == 1
MaxStatuses == 2

Chars == {"A", "M", "N", "a", "b", "m", "n"}

\* ord(c)
Ord(c) ==
    CASE c = "A" -> 65 [] c = "M" -> 77 [] c = "N" -> 78
      [] c = "a" -> 97 [] c = "b" -> 98 [] c = "m" -> 109 [] c = "n" -> 110

\* str.lower(), on one character and on a string
LowerChar(c) ==
    IF Ord(c) >= 65 /\ Ord(c) <= 90
    THEN CHOOSE d \in Chars : Ord(d) = Ord(c) + 32
    ELSE c

Lower(str) == [i \in 1..Len(str) |-> LowerChar(str[i])]

\* sub in str
Contains(str, sub) ==
    \E i \in 0..(Len(str) - Len(sub)) : SubSeq(str, i + 1, i + Len(sub)) = sub

\* str.startswith(prefix)
StartsWith(str, prefix) ==
    /\ Len(prefix) <= Len(str)
    /\ SubSeq(str, 1, Len(prefix)) = prefix

\* a < b on strings: by code point, a proper prefix first
RECURSIVE StrLess(_, _)
StrLess(a, b) ==
    IF b = << >> THEN FALSE
    ELSE IF a = << >> THEN TRUE
    ELSE IF Ord(Head(a)) # Ord(Head(b)) THEN Ord(Head(a)) < Ord(Head(b))
    ELSE StrLess(Tail(a), Tail(b))

\* seq[:limit]
SliceTo(seq, limit) ==
    IF limit >= 0
    THEN SubSeq(seq, 1, IF limit < Len(seq) THEN limit ELSE Len(seq))
    ELSE SubSeq(seq, 1, IF Len(seq) + limit > 0 THEN Len(seq) + limit ELSE 0)

\* Mutant of SortKeyLess: the names are compared as they are, not lowered.
SortKeyLessCased(s, t, query_lower) ==
    LET ks == ~StartsWith(Lower(s.name), query_lower)
        kt == ~StartsWith(Lower(t.name), query_lower)
    IN  IF ks # kt THEN kt
        ELSE StrLess(s.name, t.name)

\* key(s) < key(t) for the sort key of lines 128-131:
\* (not name.lower().startswith(query_lower), name.lower())
SortKeyLess(s, t, query_lower) ==
    LET ks == ~StartsWith(Lower(s.name), query_lower)
        kt == ~StartsWith(Lower(t.name), query_lower)
    IN  IF ks # kt THEN kt
        ELSE StrLess(Lower(s.name), Lower(t.name))

\* list.sort(key=...): stable, an element goes after those not greater.
RECURSIVE InsertSorted(_, _, _)
InsertSorted(sorted, s, query_lower) ==
    IF sorted = << >> THEN <<s>>
    ELSE IF SortKeyLess(s, Head(sorted), query_lower)
         THEN <<s>> \o sorted
         ELSE <<Head(sorted)>> \o InsertSorted(Tail(sorted), s, query_lower)

RECURSIVE SortStations(_, _)
SortStations(seq, query_lower) ==
    IF seq = << >> THEN << >>
    ELSE InsertSorted(SortStations(SubSeq(seq, 1, Len(seq) - 1), query_lower),
                      seq[Len(seq)], query_lower)

\* search_stations, lines 121-138
search_stations(stations, query, limit) ==
    LET query_lower == Lower(query)
        matching_stations ==
            SortStations(
                SelectSeq(stations,
                          LAMBDA station : Contains(Lower(station.name), query_lower)),
                query_lower)
    IN  [kind |-> "ok",
         value |-> [query |-> query,
                    total_matches |-> Len(matching_stations),
                    results |-> SliceTo(matching_stations, limit)]]

\* bool(x) of a dict or None
Truthy(x) == x # None /\ DOMAIN x # {}

\* next((s for s in seq if s["station_id"] == station_id), None)
FirstMatch(seq, station_id) ==
    LET found == {i \in 1..Len(seq) : seq[i].station_id = station_id}
    IN  IF found = {} THEN None
        ELSE seq[CHOOSE i \in found : \A j \in found : i <= j]

\* Mutant of get_station: an id that matches nothing is returned as None.
get_station_or_none(stations, station_id) ==
    [kind |-> "ok", value |-> FirstMatch(stations, station_id)]

\* get_station, lines 289-299
get_station(stations, station_id) ==
    LET station == FirstMatch(stations, station_id)
    IN  IF ~Truthy(station)
        THEN [kind |-> "error", prefix |-> "Error fetching station",
              cause |-> [msg |-> "Station with ID not found",
                         station_id |-> station_id]]
        ELSE [kind |-> "ok", value |-> station]

\* get_station_status, lines 309-319
get_station_status(statuses, station_id) ==
    LET status == FirstMatch(statuses, station_id)
    IN  IF ~Truthy(status)
        THEN [kind |-> "error", prefix |-> "Error fetching station status",
              cause |-> [msg |-> "Station status for ID not found",
                         station_id |-> station_id]]
        ELSE [kind |-> "ok", value |-> status]

\* A number with one decimal, held in tenths.
Tenths(n) == [tenths |-> n]

ZeroDivisionError == [kind |-> "ZeroDivisionError"]

Raised(x) == x = ZeroDivisionError

\* round(num / den * 100, 1); ZeroDivisionError when den = 0.
\* Rounding is to the nearest tenth, halves to even.
PercentTenths(num, den) ==
    IF den = 0 THEN ZeroDivisionError
    ELSE LET q == (num * 1000) \div den
             r == (num * 1000) - q * den
         IN  Tenths(IF 2 * r > den \/ (2 * r = den /\ q % 2 = 1) THEN q + 1 ELSE q)

RECURSIVE SumOf(_, _)
SumOf(seq, field) ==
    IF seq = << >> THEN 0 ELSE seq[1][field] + SumOf(Tail(seq), field)

\* Mutant of UtilizationRate: guarded by the station count.
UtilizationRateGuardedByCount(total_stations, total_capacity, total_docks_available) ==
    IF total_stations > 0
    THEN PercentTenths(total_capacity - total_docks_available, total_capacity)
    ELSE Tenths(0)

\* line 183
UtilizationRate(total_stations, total_capacity, total_docks_available) ==
    IF total_capacity > 0
    THEN PercentTenths(total_capacity - total_docks_available, total_capacity)
    ELSE Tenths(0)

\* line 184
OnlinePercentage(online_stations, total_stations) ==
    IF total_stations > 0
    THEN PercentTenths(online_stations, total_stations)
    ELSE Tenths(0)

\* get_system_summary, lines 173-198; the rates are in tenths of a percent
get_system_summary(stations_info, stations_status) ==
    LET total_stations == Len(stations_info)
        total_capacity == SumOf(stations_info, "capacity")
        online_stations ==
            Len(SelectSeq(stations_status, LAMBDA s : s.is_installed))
        total_bikes_available == SumOf(stations_status, "num_bikes_available")
        total_ebikes_available == SumOf(stations_status, "num_ebikes_available")
        total_docks_available == SumOf(stations_status, "num_docks_available")
        utilization_rate ==
            UtilizationRate(total_stations, total_capacity, total_docks_available)
        online_percentage == OnlinePercentage(online_stations, total_stations)
    IN  IF Raised(utilization_rate) \/ Raised(online_percentage)
        THEN [kind |-> "error", prefix |-> "Error fetching system summary",
              cause |-> [msg |-> "division by zero"]]
        ELSE [kind |-> "ok",
              value |-> [total_stations |-> total_stations,
                         online_stations |-> online_stations,
                         offline_stations |-> total_stations - online_stations,
                         online_percentage |-> online_percentage.tenths,
                         total_capacity |-> total_capacity,
                         total_bikes_available |-> total_bikes_available,
                         total_ebikes_available |-> total_ebikes_available,
                         total_docks_available |-> total_docks_available,
                         system_utilization_rate |-> utilization_rate.tenths]]

Offline == [text |-> "Station appears to be offline (no bikes or docks available)"]
NoBikes == [text |-> "No bikes available"]
NoDocks == [text |-> "No docks available"]

\* Mutant of EmptyOrFullIssues: three separate ifs.
EmptyOrFullIssuesIndependent(status) ==
    (IF status.num_bikes_available = 0 /\ status.num_docks_available = 0
       THEN <<Offline>> ELSE << >>)
    \o (IF status.num_bikes_available = 0 /\ status.is_renting
          THEN <<NoBikes>> ELSE << >>)
    \o (IF status.num_docks_available = 0 /\ status.is_returning
          THEN <<NoDocks>> ELSE << >>)

\* lines 231-236: if / elif / elif
EmptyOrFullIssues(status) ==
    IF status.num_bikes_available = 0 /\ status.num_docks_available = 0
    THEN <<Offline>>
    ELSE IF status.num_bikes_available = 0 /\ status.is_renting
    THEN <<NoBikes>>
    ELSE IF status.num_docks_available = 0 /\ status.is_returning
    THEN <<NoDocks>>
    ELSE << >>

\* lines 239-243: more than 30% of the equipment disabled
DisabledIssues(status) ==
    LET disabled == status.num_bikes_disabled + status.num_docks_disabled
        total_capacity == status.num_bikes_available + status.num_docks_available
                          + disabled
    IN  IF total_capacity > 0 /\ 10 * disabled > 3 * total_capacity
        THEN <<[text |-> "High equipment failure rate",
                tenths |-> PercentTenths(disabled, total_capacity).tenths]>>
        ELSE << >>

\* lines 218-243: the issues of one status entry, in order
IssuesOf(status) ==
    (IF ~status.is_installed THEN <<[text |-> "Station not installed"]>> ELSE << >>)
    \o (IF ~status.is_renting THEN <<[text |-> "Not renting bikes"]>> ELSE << >>)
    \o (IF ~status.is_returning
          THEN <<[text |-> "Not accepting bike returns"]>> ELSE << >>)
    \o EmptyOrFullIssues(status)
    \o DisabledIssues(status)

\* station_names.get(station_id, "Unknown"); a later duplicate id wins in
\* the dict comprehension of line 213
StationName(stations_info, station_id) ==
    LET found == {i \in 1..Len(stations_info) :
                    stations_info[i].station_id = station_id}
    IN  IF found = {} THEN "Unknown"
        ELSE stations_info[CHOOSE i \in found : \A j \in found : j <= i].name

\* lines 246-260
ProblemStation(stations_info, status) ==
    [station_id |-> status.station_id,
     station_name |-> StationName(stations_info, status.station_id),
     issues |-> IssuesOf(status),
     status |-> [is_installed |-> status.is_installed,
                 is_renting |-> status.is_renting,
                 is_returning |-> status.is_returning,
                 bikes_available |-> status.num_bikes_available,
                 docks_available |-> status.num_docks_available,
                 bikes_disabled |-> status.num_bikes_disabled,
                 docks_disabled |-> status.num_docks_disabled]]

\* get_stations_with_issues, lines 213-265
get_stations_with_issues(stations_info, stations_status) ==
    LET with_issues == SelectSeq(stations_status, LAMBDA s : IssuesOf(s) # << >>)
        problem_stations ==
            [i \in 1..Len(with_issues) |-> ProblemStation(stations_info, with_issues[i])]
    IN  [kind |-> "ok",
         value |-> [total_problem_stations |-> Len(problem_stations),
                    stations |-> problem_stations]]

(***************************************************************************)
(* The inputs the tools are applied to.                                    *)
(***************************************************************************)
SeqsUpTo(S, n) == UNION {[1..k -> S] : k \in 0..n}

\* Station names: "Ma", "mab", "NMa", "am", "b".
StationNames ==
    {<<"M", "a">>, <<"m", "a", "b">>, <<"N", "M", "a">>, <<"a", "m">>, <<"b">>}

Queries == {<< >>, <<"m">>, <<"M", "a">>, <<"m", "A">>}

\* A station_information list with the given names; ids follow feed order.
Named(names) ==
    [i \in 1..Len(names) |-> [station_id |-> ToString(i), name |-> names[i]]]

SearchCalls ==
    {[tool |-> "search_stations", stations |-> Named(names),
      query |-> q, limit |-> l] :
        names \in SeqsUpTo(StationNames, MaxStations), q \in Queries,
        l \in (-1)..MaxLimit}

StationIds == {"1", "2"}

LookupCalls ==
    {[tool |-> "get_station", stations |-> list, station_id |-> id] :
        list \in SeqsUpTo([station_id : StationIds, name : {"A", "B"}], MaxStations),
        id \in StationIds \cup {"3"}}
    \cup
    {[tool |-> "get_station_status", stations |-> list, station_id |-> id] :
        list \in SeqsUpTo([station_id : StationIds,
                           num_bikes_available : 0..MaxCount], MaxStations),
        id \in StationIds \cup {"3"}}

SummaryStatuses ==
    {[is_installed |-> inst, num_bikes_available |-> b,
      num_ebikes_available |-> b, num_docks_available |-> d] :
        inst \in BOOLEAN, b \in 0..MaxCount, d \in 0..MaxCount}

SummaryCalls ==
    {[tool |-> "get_system_summary", stations_info |-> info,
      stations_status |-> st] :
        info \in SeqsUpTo([capacity : 0..MaxCount], MaxStatuses),
        st \in SeqsUpTo(SummaryStatuses, MaxStatuses)}

IssueStatuses ==
    [station_id : {"1"}, is_installed : BOOLEAN, is_renting : BOOLEAN,
     is_returning : BOOLEAN, num_bikes_available : 0..MaxCount,
     num_docks_available : 0..MaxCount, num_bikes_disabled : 0..MaxCount,
     num_docks_disabled : 0..MaxCount]

\* A station without issues, and one with nothing available.
Healthy ==
    [station_id |-> "2", is_installed |-> TRUE, is_renting |-> TRUE,
     is_returning |-> TRUE, num_bikes_available |-> 1, num_docks_available |-> 1,
     num_bikes_disabled |-> 0, num_docks_disabled |-> 0]

Empty == [Healthy EXCEPT !.num_bikes_available = 0, !.num_docks_available = 0]

IssueCalls ==
    {[tool |-> "get_stations_with_issues", stations_info |-> info,
      stations_status |-> st] :
        info \in {<< >>, <<[station_id |-> "1", name |-> "A"]>>},
        st \in {<< >>} \cup {<<s>> : s \in IssueStatuses}
               \cup {<<Healthy, s>> : s \in IssueStatuses}
               \cup {<<s, Empty>> : s \in IssueStatuses}}

SearchStations ==
    /\ call.tool = "search_stations"
    /\ ret = None
    /\ ret' = search_stations(call.stations, call.query, call.limit)
    /\ UNCHANGED <<call, cacheVars>>

InitSearch ==
    /\ CacheAtStart
    /\ call \in SearchCalls
    /\ ret = None

SpecSearch == InitSearch /\ [][SearchStations]_vars

GetStation ==
    /\ call.tool = "get_station"
    /\ ret = None
    /\ ret' = get_station(call.stations, call.station_id)
    /\ UNCHANGED <<call, cacheVars>>

GetStationStatus ==
    /\ call.tool = "get_station_status"
    /\ ret = None
    /\ ret' = get_station_status(call.stations, call.station_id)
    /\ UNCHANGED <<call, cacheVars>>

NextLookup == GetStation \/ GetStationStatus

InitLookup ==
    /\ CacheAtStart
    /\ call \in LookupCalls
    /\ ret = None

SpecLookup == InitLookup /\ [][NextLookup]_vars

GetSystemSummary ==
    /\ call.tool = "get_system_summary"
    /\ ret = None
    /\ ret' = get_system_summary(call.stations_info, call.stations_status)
    /\ UNCHANGED <<call, cacheVars>>

InitSummary ==
    /\ CacheAtStart
    /\ call \in SummaryCalls
    /\ ret = None

SpecSummary == InitSummary /\ [][GetSystemSummary]_vars

GetStationsWithIssues ==
    /\ call.tool = "get_stations_with_issues"
    /\ ret = None
    /\ ret' = get_stations_with_issues(call.stations_info, call.stations_status)
    /\ UNCHANGED <<call, cacheVars>>

InitIssues ==
    /\ CacheAtStart
    /\ call \in IssueCalls
    /\ ret = None

SpecIssues == InitIssues /\ [][GetStationsWithIssues]_vars

(***************************************************************************)
(* The feed cache: properties of _fetch_feed.                              *)
(***************************************************************************)
Failures == {"transport", "http_status"}
Age(e) == e.time - e.entry.timestamp
CallOf(e) == tasks[e.task].calls[e.call]

\* C1: a _fetch_feed call that finds an entry for its key stored less than
\* 60 s ago returns that entry's document, issues no GET and leaves the
\* entry (document and timestamp) as it was, however many hits came before;
\* a call that finds an entry 60 s old or older, or none, issues a GET.
CacheFreshness ==
    \A i \in DOMAIN trace :
        LET e == trace[i]
            fresh == e.entry # None /\ Age(e) >= 0 /\ Age(e) < 60
        IN  e.kind \in {"hit", "get"} =>
              /\ fresh => /\ e.kind = "hit"
                          /\ e.data = e.entry.data
                          /\ CallOf(e).gets = 0
                          /\ _cache[e.key] = e.entry
              /\ ~fresh => /\ e.kind = "get"
                           /\ CallOf(e).gets = 1

\* A hit on the last second of the window, after earlier hits on the entry.
CacheFreshnessWitness ==
    \E i \in DOMAIN trace :
        /\ trace[i].kind = "hit"
        /\ Age(trace[i]) = 59
        /\ hits[trace[i].key] >= 2
        /\ _cache[trace[i].key].timestamp = trace[i].entry.timestamp

\* C2: a failed GET leaves the whole cache mapping as it was and the call
\* raises, also when an entry (stale) for the key exists.
CacheFailureIsolation ==
    \A i \in DOMAIN trace :
        LET e == trace[i]
        IN  e.kind = "fail" =>
              /\ _cache = cache_before
              /\ e.entry # None => _cache[e.key] = e.entry
              /\ tasks[e.task].pc = "done"
              /\ tasks[e.task].result.kind = "error"
              /\ CallOf(e).data = None

\* A GET fails while a stale entry for its key is in the cache.
CacheFailureIsolationWitness ==
    \E i \in DOMAIN trace :
        /\ trace[i].kind = "fail"
        /\ trace[i].entry # None
        /\ Age(trace[i]) >= 60

\* C3: every GET that succeeds writes its own document and time over the
\* entry of its key, and its caller gets that document, whatever other
\* task wrote the key while the GET was awaited.
ConcurrentMisses ==
    \A i \in DOMAIN trace :
        LET e == trace[i]
        IN  e.kind = "store" =>
              /\ e.data.url = Url(e.language, e.feed)
              /\ e.data.last_updated = e.time
              /\ _cache[e.key] = [data |-> e.data, timestamp |-> e.time]
              /\ CallOf(e).outcome = "ok"
              /\ CallOf(e).data = e.data
              /\ tasks[e.task].pc = "done" =>
                    /\ tasks[e.task].result.kind = "ok"
                    /\ tasks[e.task].result.from[e.call] = e.data

\* Two calls missed on one key before either stored; this is the second
\* store, over the first one's different document.
ConcurrentMissesWitness ==
    \E i \in DOMAIN trace :
        LET e == trace[i]
        IN  /\ e.kind = "store"
            /\ tasks[e.task].raced
            /\ e.entry # None
            /\ e.entry.data # e.data
            /\ _cache[e.key].data = e.data
            /\ tasks[e.task].pc = "done"

\* C4: a call for (language, feed_name) never returns a document fetched
\* for another pair, and a store never overwrites another pair's entry.
KeyedByPair ==
    \A i \in DOMAIN trace :
        LET e == trace[i]
        IN  /\ e.kind = "hit" => e.data.url = Url(e.language, e.feed)
            /\ (e.kind = "store" /\ e.entry # None) =>
                  e.entry.data.url = Url(e.language, e.feed)

(***************************************************************************)
(* The tools that fetch two feeds.                                         *)
(***************************************************************************)
\* C5: when the first fetch of get_system_summary or get_stations_with_issues
\* succeeds and the second fails, the tool raises its own prefix with the
\* cause, and returns nothing computed from the first feed.
NoPartialResults ==
    \A t \in TaskIds :
        LET task == tasks[t]
        IN  (/\ task.pc = "done"
             /\ Len(task.calls) = 2
             /\ task.calls[1].outcome \in {"hit", "ok"}
             /\ task.calls[2].outcome \in Failures) =>
              /\ task.result.kind = "error"
              /\ task.tool = "get_system_summary" =>
                    task.result.prefix = "Error fetching system summary"
              /\ task.tool = "get_stations_with_issues" =>
                    task.result.prefix = "Error fetching stations with issues"
              /\ task.calls[2].outcome = "transport" =>
                    task.result.cause = [msg |-> "Failed to fetch",
                                         feed |-> "station_status"]
              /\ task.calls[2].outcome = "http_status" =>
                    task.result.cause = [msg |-> "GBFS API error", code |-> 503]

\* station_information was fetched by a GET, station_status then failed.
NoPartialResultsWitness ==
    \E t \in TaskIds :
        /\ tasks[t].pc = "done"
        /\ tasks[t].tool = "get_stations_with_issues"
        /\ Len(tasks[t].calls) = 2
        /\ tasks[t].calls[1].outcome = "ok"
        /\ tasks[t].calls[1].data # None
        /\ tasks[t].calls[2].outcome = "http_status"

\* C6: a _fetch_feed call issues no GET on a fresh hit and one GET
\* otherwise, never more; a failed GET ends the tool at once, with no
\* further fetch.
NoRetries ==
    /\ \A t \in TaskIds :
        tasks[t].pc # "idle" =>
            \A i \in 1..Len(tasks[t].calls) :
                LET c == tasks[t].calls[i]
                IN  /\ c.gets = (IF c.outcome = "hit" THEN 0 ELSE 1)
                    /\ c.outcome = "pending" =>
                          tasks[t].pc = "await" /\ i = Len(tasks[t].calls)
                    /\ c.outcome \in Failures =>
                          /\ tasks[t].pc = "done"
                          /\ tasks[t].result.kind = "error"
                          /\ i = Len(tasks[t].calls)
    /\ \A i \in DOMAIN trace :
          trace[i].kind = "fail" =>
              /\ Len(trace) = 1
              /\ tasks[trace[i].task].pc = "done"

\* The first of a tool's two fetches fails: the second is never made.
NoRetriesWitness ==
    \E t \in TaskIds :
        /\ tasks[t].pc = "done"
        /\ Len(tasks[t].feeds) = 2
        /\ Len(tasks[t].calls) = 1
        /\ tasks[t].calls[1].outcome = "transport"
        /\ tasks[t].calls[1].gets = 1

(***************************************************************************)
(* The tools' results.                                                     *)
(***************************************************************************)
CountOf(seq, x) == Cardinality({k \in DOMAIN seq : seq[k] = x})

\* C7: the issues of a status entry hold at most one of the three messages
\* of the empty-or-full rule; an entry with no bikes and no docks available
\* is reported with the offline message once and neither of the other two.
IssueRuleExclusivity ==
    (call.tool = "get_stations_with_issues" /\ ret # None) =>
        /\ ret.kind = "ok"
        /\ \A i \in DOMAIN call.stations_status :
              LET status == call.stations_status[i]
                  reported == {j \in DOMAIN ret.value.stations :
                                 ret.value.stations[j].station_id = status.station_id}
                  zero == /\ status.num_bikes_available = 0
                          /\ status.num_docks_available = 0
              IN  /\ zero => reported # {}
                  /\ \A j \in reported :
                        LET issues == ret.value.stations[j].issues
                        IN  /\ CountOf(issues, Offline) + CountOf(issues, NoBikes)
                                 + CountOf(issues, NoDocks) <= 1
                            /\ zero => /\ CountOf(issues, Offline) = 1
                                       /\ CountOf(issues, NoBikes) = 0
                                       /\ CountOf(issues, NoDocks) = 0

\* Nothing available at a station that rents and accepts returns, with
\* disabled equipment: the offline message is its only empty-or-full issue.
IssueRuleExclusivityWitness ==
    /\ call.tool = "get_stations_with_issues"
    /\ ret # None
    /\ \E i \in DOMAIN call.stations_status :
          LET status == call.stations_status[i]
          IN  /\ status.station_id = "1"
              /\ status.num_bikes_available = 0
              /\ status.num_docks_available = 0
              /\ status.is_renting
              /\ status.is_returning
              /\ status.num_bikes_disabled > 0
    /\ \E j \in DOMAIN ret.value.stations :
          /\ ret.value.stations[j].station_id = "1"
          /\ CountOf(ret.value.stations[j].issues, Offline) = 1

\* The stations of a search_stations call that match its query.
Matching ==
    {i \in DOMAIN call.stations :
        Contains(Lower(call.stations[i].name), Lower(call.query))}

\* a may stand before b: prefix matches first, then by lowered name.
MayPrecede(a, b) ==
    LET pa == StartsWith(Lower(a.name), Lower(call.query))
        pb == StartsWith(Lower(b.name), Lower(call.query))
    IN  /\ pa \/ ~pb
        /\ pa = pb => ~StrLess(Lower(b.name), Lower(a.name))

\* total_matches counts every match; results are matches, each once, in
\* ranking order, and no match left out ranks before one returned.
SearchRanking ==
    LET v == ret.value
    IN  /\ ret.kind = "ok"
        /\ v.total_matches = Cardinality(Matching)
        /\ \A i \in DOMAIN v.results :
              \E m \in Matching : call.stations[m] = v.results[i]
        /\ \A i, j \in DOMAIN v.results :
              i < j => /\ v.results[i] # v.results[j]
                       /\ MayPrecede(v.results[i], v.results[j])
        /\ \A m \in Matching :
              (\A i \in DOMAIN v.results : v.results[i] # call.stations[m]) =>
                  \A i \in DOMAIN v.results :
                      MayPrecede(v.results[i], call.stations[m])

\* C8: for every integer limit, results are the first matches of the
\* ranking and never more than limit of them (an empty result is within
\* any limit).
SearchShape ==
    (call.tool = "search_stations" /\ ret # None) =>
        /\ SearchRanking
        /\ Len(ret.value.results) = 0 \/ Len(ret.value.results) <= call.limit
        /\ Cardinality(Matching) <= call.limit =>
              Len(ret.value.results) = Cardinality(Matching)

\* C9: get_station and get_station_status raise their not-found error for
\* an id that no entry has, never return None, and return the first entry
\* with the id otherwise.
LookupById ==
    (call.tool \in {"get_station", "get_station_status"} /\ ret # None) =>
        LET found == {i \in DOMAIN call.stations :
                        call.stations[i].station_id = call.station_id}
        IN  /\ found = {} =>
                /\ ret.kind = "error"
                /\ ret.cause.station_id = call.station_id
                /\ ret.cause.msg = (IF call.tool = "get_station"
                                      THEN "Station with ID not found"
                                      ELSE "Station status for ID not found")
            /\ found # {} =>
                /\ ret.kind = "ok"
                /\ \E i \in found : /\ \A j \in found : i <= j
                                    /\ ret.value = call.stations[i]
            /\ ret.kind = "ok" => ret.value # None

\* get_station with an id that none of several stations has.
LookupByIdWitness ==
    /\ call.tool = "get_station"
    /\ Len(call.stations) >= 2
    /\ \A i \in DOMAIN call.stations : call.stations[i].station_id # call.station_id
    /\ ret # None
    /\ ret.kind = "error"

\* C10: get_system_summary returns a utilization rate of 0 when the
\* capacities sum to 0 and an online percentage of 0 when there is no
\* station_information entry, whatever station_status holds, and raises
\* in neither case.
SummaryZeroGuards ==
    (call.tool = "get_system_summary" /\ ret # None) =>
        /\ SumOf(call.stations_info, "capacity") = 0 =>
              /\ ret.kind = "ok"
              /\ ret.value.system_utilization_rate = 0
        /\ call.stations_info = << >> =>
              /\ ret.kind = "ok"
              /\ ret.value.online_percentage = 0

\* Stations of capacity 0, and a status list with an installed station
\* that has docks available.
SummaryZeroGuardsWitness ==
    /\ call.tool = "get_system_summary"
    /\ ret # None
    /\ call.stations_info # << >>
    /\ SumOf(call.stations_info, "capacity") = 0
    /\ \E i \in DOMAIN call.stations_status :
          /\ call.stations_status[i].is_installed
          /\ call.stations_status[i].num_docks_available > 0

====
